---- MODULE Spec2Model ----
(***************************************************************************)
(* TI-Tool: recovery of a length-prefixed payload from the least           *)
(* significant bits of an RGB raster (extract_binary_from_lsb,             *)
(* binary_to_bytes), classification of the recovered bytes                 *)
(* (detect_file_type, convert_to_png) and the /decode and /decode/direct   *)
(* handlers that write the result to the output store.                     *)
(*                                                                         *)
(* Byte strings are sequences of 0..255, bit strings ("0"/"1" characters   *)
(* in the source) are sequences of 0/1.  Python indices are 0-based; the   *)
(* helpers below keep the source's 0-based arithmetic and add 1 only when  *)
(* a TLA+ sequence is indexed.                                             *)
(***************************************************************************)
EXTENDS Integers, Sequences, FiniteSets, TLC

VARIABLES
    image_array,    \* the decoded raster: [height, width, px], px row-major, 3 channels
    strategy_idx,   \* position of the `for top_skip, bottom_skip in strategies` loop
    tried,          \* the (start_row, end_row) windows read so far, in order
    binary_data,    \* what extract_binary_from_lsb returned (None while running)
    reads,          \* for each returned bit, the flat index of the channel it was read from
    pc,             \* "extract" while the strategy loop runs, "returned" after
    payload,        \* the byte sequence a synthetic raster was built from
    file_data,      \* file_data = binary_to_bytes(binary_data) (None before)
    detected,       \* what detect_file_type(file_data) returned (None before)
    codec_decodes,  \* whether the external codec decoded what convert_to_png handed it
    store,          \* the output directory: file name -> [mtime, data, open_by]
    now,            \* time.time(), in whole seconds
    ticks,          \* how many times the clock has advanced
    req,            \* the /decode and /decode/direct requests in flight
    served,         \* how many requests have been received
    overwrote       \* whether an open(file_path, 'wb') found file_path existing

ext_vars == <<image_array, strategy_idx, tried, binary_data, reads, payload>>
sniff_vars == <<file_data, detected, codec_decodes>>
srv_vars == <<store, now, ticks, req, served, overwrote>>

vars == <<ext_vars, sniff_vars, srv_vars, pc>>

\* Python's None: a value that no bit string, byte string or run of reads equals
None == <<-1>>

----------------------------------------------------------------------------
(* Bounds of the model *)

\* at most this many channel values of an input raster have their LSB set
MaxOnes == 1
\* the longest payload encoded into a synthetic raster, in bytes
MaxPayload == 2
\* the most signature and filler pieces a buffer handed to the sniffer is made of
MaxTokens == 2
\* the requests served concurrently
NumRequests == 2
\* the values uuid.uuid4().hex[:8] is drawn from (2^32 in the source)
NumUuids == 2
\* how many times the clock advances
MaxTicks == 1
\* how many requests the server receives in all
MaxServed == 4

(* Program constants *)

\* len(binary_data) >= 32, binary_data[:32]
PrefixBits == 32
\* pixel_index = current_pos // 3; channel_index = current_pos % 3; RGB rasters
Channels == 3
\* if file_age > 86400
DaySeconds == 86400

\* the (height, width) of the rasters the model feeds to the extraction
Dims == { <<1, 12>>, <<4, 2>>, <<5, 3>>, <<10, 2>> }

----------------------------------------------------------------------------
(* extract_binary_from_lsb *)

\* int(height * 0.20), int(height * 0.10): the float product truncated toward 0
\* (equal to the integer quotient for every height below 20000)
TopSkip20(height) == (height * 20) \div 100
TopSkip10(height) == (height * 10) \div 100

\* strategies with the full image tried first (a reordered list)
strategies_widest_first(height) ==
    << <<0, 0>>,
       <<TopSkip10(height), TopSkip10(height)>>,
       <<TopSkip20(height), TopSkip20(height)>> >>

\* the strategies list, as (top_skip, bottom_skip) pairs in the order tried
strategies(height) ==
    << <<TopSkip20(height), TopSkip20(height)>>,
       <<TopSkip10(height), TopSkip10(height)>>,
       <<0, 0>> >>

\* image_array[i, j, k] & 1, with `at` the flat index (i * width + j) * 3 + k
LsbAt(img, at) == img.px[at + 1] % 2

\* the bit characters of a run of reads
BitsOf(img, rd) == [n \in 1..Len(rd) |-> LsbAt(img, rd[n])]

\* int(s, 2) of a bit string
RECURSIVE int2_upto(_, _)
int2_upto(s, n) == IF n = 0 THEN 0 ELSE 2 * int2_upto(s, n - 1) + s[n]

int2(s) == int2_upto(s, Len(s))

\* data_length = int(length_binary, 2).  Python integers are unbounded; the
\* model's are 32-bit, so a length of 2^27 or more (one of the 5 leading bits
\* set) is represented by 2^27: 32 + 8 * 2^27 already exceeds the bit count of
\* every raster of the model, so every comparison with it is the source's.
data_length(length_binary) ==
    IF \E n \in 1..5 : length_binary[n] = 1
    THEN 2^27
    ELSE int2(length_binary)

total_bits_needed(length_binary) == PrefixBits + data_length(length_binary) * 8

\* Python's max and min
Max(a, b) == IF a > b THEN a ELSE b
Min(a, b) == IF a < b THEN a ELSE b

\* the channel value the inner while loop reads when len(binary_data) is
\* current_pos (lines 94-105), as a flat index
fill_read(img, start_row, current_pos) ==
    LET pixel_index == current_pos \div 3
        channel_index == current_pos % 3
        row == start_row + (pixel_index \div img.width)
        col == pixel_index % img.width
    IN  (row * img.width + col) * Channels + channel_index

\* the inner `while len(binary_data) < total_bits_needed` loop; rd is
\* binary_data as the run of flat indices read so far.  Each pass appends
\* the read at current_pos = len(binary_data); the loop ends when the length
\* is total or pixel_index >= available_pixels (with pixel_index below
\* available_pixels, row < end_row and col < width always hold)
fill(img, start_row, end_row, rd, total) ==
    LET available_pixels == (end_row - start_row) * img.width
        last == Max(Len(rd), Min(total, 3 * available_pixels))
    IN  [m \in 1..last |-> IF m <= Len(rd) THEN rd[m]
                           ELSE fill_read(img, start_row, m - 1)]

\* the body of the i, j, k loops at the n-th (i, j, k) of the window with
\* binary_data = rd (lines 84-112): the bit is appended, and from 32 bits on
\* the length is decoded, the inner loop run and the frame returned when
\* complete
loop_body(img, start_row, end_row, n, rd) ==
    LET i == start_row + n \div (img.width * Channels)
        j == (n \div Channels) % img.width
        k == n % Channels
        rd1 == Append(rd, (i * img.width + j) * Channels + k)
    IN  IF Len(rd1) >= PrefixBits
        THEN LET total == total_bits_needed(BitsOf(img, SubSeq(rd1, 1, PrefixBits)))
                 rd2 == fill(img, start_row, end_row, rd1, total)
             IN  IF Len(rd2) >= total
                 THEN [returned |-> TRUE, rd |-> SubSeq(rd2, 1, total)]
                 ELSE [returned |-> FALSE, rd |-> rd2]
        ELSE [returned |-> FALSE, rd |-> rd1]

\* the passes lo .. hi - 1 of the i, j, k loops from the state st, in order,
\* stopping at a return (the run is split in halves to keep the evaluation
\* shallow)
RECURSIVE loops(_, _, _, _, _, _)
loops(img, start_row, end_row, st, lo, hi) ==
    IF st.returned \/ lo >= hi THEN st
    ELSE IF hi = lo + 1 THEN loop_body(img, start_row, end_row, lo, st.rd)
    ELSE LET mid == (lo + hi) \div 2
         IN  loops(img, start_row, end_row,
                   loops(img, start_row, end_row, st, lo, mid), mid, hi)

\* the i, j, k loops over one window, resumed at the n-th (i, j, k) of the
\* window with binary_data = rd; the reads of the returned bit string, or
\* None when the loops end without a return
scan(img, start_row, end_row, n, rd) ==
    LET st == loops(img, start_row, end_row, [returned |-> FALSE, rd |-> rd],
                    n, (end_row - start_row) * img.width * Channels)
    IN  IF st.returned THEN st.rd ELSE None

\* one iteration of the strategy loop: the window and what its scan returns
start_row(img, s) == strategies(img.height)[s][1]
end_row(img, s) == img.height - strategies(img.height)[s][2]
scan_strategy(img, s) == scan(img, start_row(img, s), end_row(img, s), 0, <<>>)

\* the whole function: the reads of the returned bit string, or None
RECURSIVE extract_reads(_, _)
extract_reads(img, s) ==
    IF s > Len(strategies(img.height)) THEN None
    ELSE IF scan_strategy(img, s) # None THEN scan_strategy(img, s)
    ELSE extract_reads(img, s + 1)

extract_binary_from_lsb(img) ==
    IF extract_reads(img, 1) = None THEN None
    ELSE BitsOf(img, extract_reads(img, 1))

----------------------------------------------------------------------------
(* The rasters fed to the extraction: every raster of a size in Dims with  *)
(* at most MaxOnes channel values of odd parity.  The upper seven bits of  *)
(* a channel vary with its position, so that `& 1` is not the identity.    *)

RECURSIVE SetsUpTo(_, _)
SetsUpTo(n, k) ==
    IF k = 0 THEN { {} }
    ELSE SetsUpTo(n, k - 1) \cup { S \cup {x} : S \in SetsUpTo(n, k - 1), x \in 1..n }

OnesSets(n) == SetsUpTo(n, MaxOnes)

Raster(h, w, ones) ==
    [height |-> h, width |-> w,
     px |-> [n \in 1..(h * w * Channels) |->
                2 * ((7 * n) % 128) + (IF n \in ones THEN 1 ELSE 0)]]

\* the server at rest, for the specifications of the pure functions
ServerIdle ==
    /\ store = <<>>
    /\ now = 0
    /\ ticks = 0
    /\ req = <<>>
    /\ served = 0
    /\ overwrote = FALSE

InitExtract ==
    /\ ServerIdle
    /\ \E d \in Dims : \E ones \in OnesSets(d[1] * d[2] * Channels) :
          image_array = Raster(d[1], d[2], ones)
    /\ strategy_idx = 1
    /\ tried = <<>>
    /\ binary_data = None
    /\ reads = <<>>
    /\ pc = "extract"
    /\ payload = <<>>
    /\ file_data = None
    /\ detected = None
    /\ codec_decodes = FALSE

\* one pass of the strategy loop body (lines 76-115)
TryStrategy ==
    /\ pc = "extract"
    /\ strategy_idx <= Len(strategies(image_array.height))
    /\ LET r == scan_strategy(image_array, strategy_idx)
       IN  /\ tried' = Append(tried, <<start_row(image_array, strategy_idx),
                                       end_row(image_array, strategy_idx)>>)
           /\ IF r # None
              THEN /\ binary_data' = BitsOf(image_array, r)
                   /\ reads' = r
                   /\ pc' = "returned"
                   /\ UNCHANGED strategy_idx
              ELSE /\ strategy_idx' = strategy_idx + 1
                   /\ UNCHANGED <<binary_data, reads, pc>>
    /\ UNCHANGED <<image_array, payload, sniff_vars, srv_vars>>

\* the loop is over: return None (line 117)
ReturnNone ==
    /\ pc = "extract"
    /\ strategy_idx > Len(strategies(image_array.height))
    /\ pc' = "returned"
    /\ UNCHANGED <<ext_vars, sniff_vars, srv_vars>>

NextExtract == TryStrategy \/ ReturnNone

SpecExtract == InitExtract /\ [][NextExtract]_vars

----------------------------------------------------------------------------
(* binary_to_bytes *)

\* bytes packed least-significant bit first (a reversed bit order)
binary_to_bytes_lsb_first(binary_string) ==
    [n \in 1..(Len(binary_string) \div 8) |->
        int2([i \in 1..8 |-> binary_string[8 * n + 1 - i]])]

\* drop the trailing len % 8 characters, then int(byte_str, 2) of every 8
binary_to_bytes(binary_string) ==
    LET s == IF Len(binary_string) % 8 # 0
             THEN SubSeq(binary_string, 1, Len(binary_string) - (Len(binary_string) % 8))
             ELSE binary_string
    IN  [n \in 1..(Len(s) \div 8) |-> int2(SubSeq(s, 8 * (n - 1) + 1, 8 * n))]

----------------------------------------------------------------------------
(* Python's bytes operations, on 0-based offsets *)


\* data.find(pat, start): the lowest offset >= start where pat occurs, or -1
find_from(data, pat, start) ==
    LET hits == { i \in start..(Len(data) - Len(pat)) :
                     SubSeq(data, i + 1, i + Len(pat)) = pat }
    IN  IF hits = {} THEN -1 ELSE CHOOSE i \in hits : \A j \in hits : i <= j

\* data.find(pat)
find(data, pat) == find_from(data, pat, 0)

\* data.startswith(pat)
startswith(data, pat) ==
    Len(data) >= Len(pat) /\ SubSeq(data, 1, Len(pat)) = pat

\* the offset at which data[a:] begins: a negative a counts from the end
slice_start(data, a) ==
    IF a < 0 THEN Max(Len(data) + a, 0) ELSE Min(a, Len(data))

\* data[a:]
slice_from(data, a) == SubSeq(data, slice_start(data, a) + 1, Len(data))

\* data[a:b] for a, b >= 0
slice(data, a, b) == SubSeq(data, Min(a, Len(data)) + 1, Min(b, Len(data)))

\* pat in data
contains(data, pat) == find(data, pat) # -1

----------------------------------------------------------------------------
(* The signatures detect_file_type tests *)

PNG_MAGIC == <<137, 80, 78, 71>>            \* b'\x89PNG'
JPG_MAGIC == <<255, 216, 255>>              \* b'\xFF\xD8\xFF'
GIF87a == <<71, 73, 70, 56, 55, 97>>        \* b'GIF87a'
GIF89a == <<71, 73, 70, 56, 57, 97>>        \* b'GIF89a'
RIFF == <<82, 73, 70, 70>>                  \* b'RIFF'
WEBP == <<87, 69, 66, 80>>                  \* b'WEBP'
BM == <<66, 77>>                            \* b'BM'
TIFF_II == <<73, 73, 42, 0>>                \* b'II*\x00'
TIFF_MM == <<77, 77, 0, 42>>                \* b'MM\x00*'
ICO_MAGIC == <<0, 0, 1, 0>>                 \* b'\x00\x00\x01\x00'
SVG_OPEN == <<60, 115, 118, 103>>           \* b'<svg'
SVG_OPEN_UPPER == <<60, 83, 86, 71>>        \* b'<SVG'
SVG_CLOSE == <<60, 47, 115, 118, 103, 62>>  \* b'</svg>'
SVG_CLOSE_UPPER == <<60, 47, 83, 86, 71, 62>> \* b'</SVG>'
FTYP == <<102, 116, 121, 112>>              \* b'ftyp'
AVI == <<65, 86, 73>>                       \* b'AVI'
MKV_MAGIC == <<26, 69, 223, 163>>           \* b'\x1a\x45\xdf\xa3'
ID3 == <<73, 68, 51>>                       \* b'ID3'
MP3_FRAME == <<255, 251>>                   \* b'\xff\xfb'
WAVE == <<87, 65, 86, 69>>                  \* b'WAVE'

----------------------------------------------------------------------------
(* convert_to_png, convert_svg_to_png *)

\* what a raised exception is represented by in a value position
Raised == <<-2>>

\* the PNG the external codec produces from image_data: the 8-byte PNG
\* signature followed by a byte standing for the re-encoded content
codec_png(image_data) == <<137, 80, 78, 71, 13, 10, 26, 10, Len(image_data) % 256>>

\* convert_to_png without its except clause: a codec failure propagates
convert_to_png_propagates(image_data, original_format, codec_ok) ==
    IF codec_ok THEN codec_png(image_data) ELSE Raised

\* convert_to_png: the codec's PNG, or image_data itself when anything in
\* the try block raises (codec_ok = FALSE)
convert_to_png(image_data, original_format, codec_ok) ==
    IF codec_ok THEN codec_png(image_data) ELSE image_data

\* convert_svg_to_png: the SVG bytes unchanged
convert_svg_to_png(svg_data) == svg_data

----------------------------------------------------------------------------
(* detect_file_type *)

\* what detect_file_type returns, (file_type, data), with a record of how it
\* got there: the format recognised, the offset in file_data where the
\* recognised bytes begin, and whether convert_to_png was called on them
Ret(file_type, bytes, format, at, codec) ==
    [file_type |-> file_type, data |-> bytes, format |-> format, at |-> at, codec |-> codec]

\* a still image recognised at offset `at` and handed to convert_to_png
Converted(data, at, format, codec_ok) ==
    Ret("png", convert_to_png(slice_from(data, at), format, codec_ok), format, at, TRUE)

\* gif_start, tiff_start, svg_start, svg_end: the first pattern's offset, or
\* the second's when the first does not occur
find_either(data, pat1, pat2, start) ==
    IF find_from(data, pat1, start) # -1
    THEN find_from(data, pat1, start)
    ELSE find_from(data, pat2, start)

\* lines 266-314: the signatures anchored at offset 0
detect_direct(data, codec_ok) ==
    IF startswith(data, PNG_MAGIC) THEN Ret("png", data, "png", 0, FALSE)
    ELSE IF startswith(data, JPG_MAGIC) THEN Converted(data, 0, "jpg", codec_ok)
    ELSE IF startswith(data, GIF87a) \/ startswith(data, GIF89a)
         THEN Converted(data, 0, "gif", codec_ok)
    ELSE IF startswith(data, RIFF) /\ contains(slice(data, 0, 12), WEBP)
         THEN Converted(data, 0, "webp", codec_ok)
    ELSE IF startswith(data, BM) THEN Converted(data, 0, "bmp", codec_ok)
    ELSE IF startswith(data, TIFF_II) \/ startswith(data, TIFF_MM)
         THEN Converted(data, 0, "tiff", codec_ok)
    ELSE IF startswith(data, ICO_MAGIC) THEN Converted(data, 0, "ico", codec_ok)
    ELSE IF startswith(data, SVG_OPEN) \/ startswith(data, SVG_OPEN_UPPER)
         THEN Ret("png", convert_svg_to_png(data), "svg", 0, FALSE)
    ELSE IF startswith(data, RIFF) /\ contains(slice(data, 0, 20), AVI)
         THEN Ret("avi", data, "avi", 0, FALSE)
    ELSE IF startswith(data, MKV_MAGIC) THEN Ret("mkv", data, "mkv", 0, FALSE)
    ELSE IF startswith(data, ID3) \/ startswith(data, MP3_FRAME)
         THEN Ret("mp3", data, "mp3", 0, FALSE)
    ELSE IF startswith(data, RIFF) /\ contains(slice(data, 0, 20), WAVE)
         THEN Ret("wav", data, "wav", 0, FALSE)
    ELSE Ret("bin", data, "bin", 0, FALSE)

\* lines 260-264: mp4_data = data[mp4_start-4:]
detect_mp4(data, codec_ok) ==
    LET mp4_start == find(data, FTYP)
    IN  IF mp4_start # -1 /\ mp4_start < 20
        THEN Ret("mp4", slice_from(data, mp4_start - 4), "mp4",
                 slice_start(data, mp4_start - 4), FALSE)
        ELSE detect_direct(data, codec_ok)

\* the embedded-image tests of lines 185-256, each a condition on file_data
\* (png_embedded_min16: the PNG test with another minimum length)
png_embedded_min16(data) ==
    LET png_start == find(data, PNG_MAGIC)
    IN  png_start # -1 /\ Len(slice_from(data, png_start)) > 16
png_embedded(data) ==
    LET png_start == find(data, PNG_MAGIC)
    IN  png_start # -1 /\ Len(slice_from(data, png_start)) > 8
jpg_embedded(data) ==
    LET jpg_start == find(data, JPG_MAGIC)
    IN  jpg_start # -1 /\ Len(slice_from(data, jpg_start)) > 4
gif_embedded(data) ==
    LET gif_start == find_either(data, GIF87a, GIF89a, 0)
    IN  gif_start # -1 /\ Len(slice_from(data, gif_start)) > 6
webp_embedded(data) ==
    LET webp_start == find(data, RIFF)
    IN  /\ webp_start # -1
        /\ contains(slice(data, webp_start, webp_start + 12), WEBP)
        /\ Len(slice_from(data, webp_start)) > 12
        /\ contains(slice(slice_from(data, webp_start), 0, 12), WEBP)
bmp_embedded(data) ==
    LET bmp_start == find(data, BM)
    IN  bmp_start # -1 /\ Len(slice_from(data, bmp_start)) > 2
tiff_embedded(data) ==
    LET tiff_start == find_either(data, TIFF_II, TIFF_MM, 0)
    IN  tiff_start # -1 /\ Len(slice_from(data, tiff_start)) > 4
ico_embedded(data) ==
    LET ico_start == find(data, ICO_MAGIC)
    IN  ico_start # -1 /\ Len(slice_from(data, ico_start)) > 4
svg_embedded(data) ==
    LET svg_start == find_either(data, SVG_OPEN, SVG_OPEN_UPPER, 0)
    IN  /\ svg_start # -1
        /\ find_either(data, SVG_CLOSE, SVG_CLOSE_UPPER, svg_start) # -1

\* lines 192-264: what follows the embedded-PNG test, in the order of the source
detect_after_png(data, codec_ok) ==
    IF jpg_embedded(data)
    THEN Converted(data, find(data, JPG_MAGIC), "jpg", codec_ok)
    ELSE IF gif_embedded(data)
    THEN Converted(data, find_either(data, GIF87a, GIF89a, 0), "gif", codec_ok)
    ELSE IF webp_embedded(data)
    THEN Converted(data, find(data, RIFF), "webp", codec_ok)
    ELSE IF bmp_embedded(data)
    THEN Converted(data, find(data, BM), "bmp", codec_ok)
    ELSE IF tiff_embedded(data)
    THEN Converted(data, find_either(data, TIFF_II, TIFF_MM, 0), "tiff", codec_ok)
    ELSE IF ico_embedded(data)
    THEN Converted(data, find(data, ICO_MAGIC), "ico", codec_ok)
    ELSE IF svg_embedded(data)
    THEN LET svg_start == find_either(data, SVG_OPEN, SVG_OPEN_UPPER, 0)
             svg_end == find_either(data, SVG_CLOSE, SVG_CLOSE_UPPER, svg_start)
         IN  Ret("png", convert_svg_to_png(slice(data, svg_start, svg_end + 6)),
                 "svg", svg_start, FALSE)
    ELSE detect_mp4(data, codec_ok)

\* the embedded PNG found: return "png", png_data (lines 186-190)
png_found(data) ==
    Ret("png", slice_from(data, find(data, PNG_MAGIC)), "png", find(data, PNG_MAGIC), FALSE)

\* detect_file_type with the signatures anchored at offset 0 tested before
\* the embedded ones (the tests in another order)
detect_file_type_direct_first(data, codec_ok) ==
    IF detect_direct(data, codec_ok).format \in {"png", "jpg", "gif", "webp", "bmp", "tiff", "ico"}
    THEN detect_direct(data, codec_ok)
    ELSE IF png_embedded(data) THEN png_found(data)
    ELSE detect_after_png(data, codec_ok)

\* detect_file_type, lines 180-314
detect_file_type(data, codec_ok) ==
    IF png_embedded(data) THEN png_found(data)
    ELSE detect_after_png(data, codec_ok)

----------------------------------------------------------------------------
(* Synthetic rasters: a payload written into the LSBs of the full image in *)
(* raster order as a 32-bit big-endian length followed by the payload's    *)
(* bits, most significant bit of each byte first.                          *)

ByteVals == {0, 1, 128, 255}
SynthWidths == {5, 12}

RECURSIVE SeqsUpTo(_, _)
SeqsUpTo(S, k) ==
    IF k = 0 THEN { <<>> }
    ELSE SeqsUpTo(S, k - 1) \cup { Append(q, x) : q \in SeqsUpTo(S, k - 1), x \in S }

BE32(n) == << n \div 16777216, (n \div 65536) % 256, (n \div 256) % 256, n % 256 >>

FrameBits(bytes) == [m \in 1..(8 * Len(bytes)) |->
                        (bytes[(m - 1) \div 8 + 1] \div 2^(7 - ((m - 1) % 8))) % 2]

EncodeBits(P) == FrameBits(BE32(Len(P)) \o P)

SyntheticRaster(P, w, extra, pad) ==
    LET bits == EncodeBits(P)
        rowbits == w * Channels
        h == (Len(bits) + rowbits - 1) \div rowbits + extra
    IN  [height |-> h, width |-> w,
         px |-> [n \in 1..(h * rowbits) |->
                    2 * ((5 * n) % 128) + (IF n <= Len(bits) THEN bits[n] ELSE pad)]]

\* the rows a synthetic raster has beyond those the frame needs: one row
\* short, none, or enough for the 20% and 10% strategies to trim rows
SynthExtras == {-1, 0, 1, 8}

\* binary_data = extract_binary_from_lsb(img_array) (decode_image, line 388)
\* is called on a synthetic raster; the strategy loop starts with the 20%
\* strategy
InitRound ==
    /\ ServerIdle
    /\ payload \in SeqsUpTo(ByteVals, MaxPayload)
    /\ \E w \in SynthWidths, extra \in SynthExtras, pad \in 0..1 :
          /\ SyntheticRaster(payload, w, extra, pad).height >= 1
          /\ image_array = SyntheticRaster(payload, w, extra, pad)
    /\ strategy_idx = 1
    /\ tried = <<>>
    /\ binary_data = None
    /\ reads = <<>>
    /\ pc = "extract"
    /\ file_data = None
    /\ detected = None
    /\ codec_decodes = FALSE

\* file_data = binary_to_bytes(binary_data) (decode_image, line 397)
Pack ==
    /\ pc = "returned"
    /\ binary_data # None
    /\ file_data = None
    /\ file_data' = binary_to_bytes(binary_data)
    /\ pc' = "packed"
    /\ UNCHANGED <<ext_vars, detected, codec_decodes, srv_vars>>

\* lines 388-397: extract_binary_from_lsb runs to its return, then the frame
\* is packed; a None ends the request (404, line 390)
NextRound == TryStrategy \/ ReturnNone \/ Pack

SpecRound == InitRound /\ [][NextRound]_vars

----------------------------------------------------------------------------
(* The buffers handed to detect_file_type: every concatenation of at most  *)
(* MaxTokens pieces, each a signature, a size field or filler.             *)

X(n) == [i \in 1..n |-> 120]                \* n filler bytes b'x'

Tokens ==
    { PNG_MAGIC,
      PNG_MAGIC \o <<13, 10, 26, 10, 0, 0, 0, 13>>,   \* a PNG signature and chunk length
      JPG_MAGIC, GIF87a, GIF89a,
      RIFF \o <<36, 0, 0, 0>>,                        \* RIFF and its size field
      WEBP, AVI, WAVE, BM,
      <<1, 0, 0, 0>>,                                 \* a little-endian size field of 1
      TIFF_II, TIFF_MM, ICO_MAGIC,
      SVG_OPEN, SVG_CLOSE, FTYP, MKV_MAGIC, ID3, MP3_FRAME,
      X(1), X(4), X(20) }

RECURSIVE Concat(_)
Concat(q) == IF q = <<>> THEN <<>> ELSE Head(q) \o Concat(Tail(q))

SniffInputs == { Concat(q) : q \in SeqsUpTo(Tokens, MaxTokens) }

InitSniff ==
    /\ ServerIdle
    /\ file_data \in SniffInputs
    /\ image_array = None
    /\ strategy_idx = 0
    /\ tried = <<>>
    /\ binary_data = None
    /\ reads = <<>>
    /\ payload = <<>>
    /\ detected = None
    /\ codec_decodes = FALSE
    /\ pc = "sniff"

\* file_type, extracted_data = detect_file_type(file_data), for either
\* outcome of the external codec
Sniff ==
    /\ pc = "sniff"
    /\ \E ok \in BOOLEAN :
          /\ detected' = detect_file_type(file_data, ok)
          /\ codec_decodes' = ok
    /\ pc' = "detected"
    /\ UNCHANGED <<ext_vars, file_data, srv_vars>>

NextSniff == Sniff

SpecSniff == InitSniff /\ [][NextSniff]_vars

----------------------------------------------------------------------------
(* decode_image, decode_image_direct, cleanup_old_files *)

\* what a URL can deliver when download_image_from_url and
\* load_image_from_bytes succeed: a raster too small for a length prefix
\* (extract_binary_from_lsb returns None), or a raster whose frame is the
\* four zero bytes of an empty payload
Fetched ==
    { Raster(4, 2, {}),
      Raster(1, 12, {}) }

\* lines 388-398 (475-481) on a fetched raster and a codec outcome: file
\* type "none" when extract_binary_from_lsb returns None, else what
\* detect_file_type returns for binary_to_bytes(binary_data)
decoded(img, ok) ==
    IF extract_binary_from_lsb(img) = None THEN Ret("none", <<>>, "none", 0, FALSE)
    ELSE detect_file_type(binary_to_bytes(extract_binary_from_lsb(img)), ok)

\* what the requests of the model can recover
Recovered == { decoded(img, ok) : img \in Fetched, ok \in BOOLEAN }

Requests == 1..NumRequests

IdleRequest ==
    [pc |-> "idle", kind |-> "none", output_name |-> 0, file_type |-> "none",
     extracted_data |-> <<>>, current_time |-> 0, listing |-> {}, file_path |-> <<>>,
     cleaned_count |-> 0, cleaned_files |-> 0, filename |-> <<>>, status |-> 0]

\* the name of the written file: decoded_<int(time.time())>_<uuid>.<type>
\* for /decode, decoded_<uuid>.<type> for /decode/direct
temp_filename(r, uuid) ==
    IF r.kind = "decode"
    THEN <<"decoded", r.output_name, uuid, r.file_type>>
    ELSE <<"decoded", uuid, r.file_type>>

\* the files a cleanup_old_files that starts at time t and runs alone
\* removes: file_age > 86400
expired(files, t) == { n \in DOMAIN files : t - files[n].mtime > DaySeconds }

Init ==
    /\ store = <<>>
    /\ now = 0
    /\ ticks = 0
    /\ req = [r \in Requests |-> IdleRequest]
    /\ served = 0
    /\ overwrote = FALSE
    /\ image_array = None
    /\ strategy_idx = 0
    /\ tried = <<>>
    /\ binary_data = None
    /\ reads = <<>>
    /\ payload = <<>>
    /\ file_data = None
    /\ detected = None
    /\ codec_decodes = FALSE
    /\ pc = "serve"

\* the request has no url field: 400 (lines 367-371, 467-468)
RejectNoUrl(r) ==
    /\ req[r].pc = "idle"
    /\ served < MaxServed
    /\ served' = served + 1
    /\ \E kind \in {"decode", "direct"} :
          req' = [req EXCEPT ![r] = [@ EXCEPT !.pc = "done", !.kind = kind, !.status = 400]]
    /\ UNCHANGED <<ext_vars, sniff_vars, store, now, ticks, overwrote, pc>>

\* request.get_json, download_image_from_url or load_image_from_bytes
\* raises: 500 from the handler's except clause
FailFetch(r) ==
    /\ req[r].pc = "idle"
    /\ served < MaxServed
    /\ served' = served + 1
    /\ \E kind \in {"decode", "direct"} :
          req' = [req EXCEPT ![r] = [@ EXCEPT !.pc = "done", !.kind = kind, !.status = 500,
                                              !.output_name = now]]
    /\ UNCHANGED <<ext_vars, sniff_vars, store, now, ticks, overwrote, pc>>

\* a handler that goes on to cleanup and write when extract_binary_from_lsb
\* returned None
Extract_no_404(r) ==
    /\ req[r].pc = "idle"
    /\ served < MaxServed
    /\ served' = served + 1
    /\ \E kind \in {"decode", "direct"}, det \in Recovered :
          req' = [req EXCEPT ![r] = [@ EXCEPT !.pc = "cleanup", !.kind = kind,
                                              !.output_name = now,
                                              !.file_type = det.file_type,
                                              !.extracted_data = det.data]]
    /\ UNCHANGED <<ext_vars, sniff_vars, store, now, ticks, overwrote, pc>>

\* lines 373-398 (470-481): the image is fetched and decoded, the frame
\* extracted, packed and sniffed; 404 when extract_binary_from_lsb returns None
Extract(r) ==
    /\ req[r].pc = "idle"
    /\ served < MaxServed
    /\ served' = served + 1
    /\ \E kind \in {"decode", "direct"}, det \in Recovered :
              IF det.file_type = "none"
              THEN req' = [req EXCEPT ![r] = [@ EXCEPT !.pc = "done", !.kind = kind,
                                                       !.status = 404, !.output_name = now]]
              ELSE req' = [req EXCEPT ![r] = [@ EXCEPT !.pc = "cleanup", !.kind = kind,
                                                       !.output_name = now,
                                                       !.file_type = det.file_type,
                                                       !.extracted_data = det.data]]
    /\ UNCHANGED <<ext_vars, sniff_vars, store, now, ticks, overwrote, pc>>

\* cleanup_old_files is entered (lines 406, 489; the directory exists, it
\* was made just before): current_time = time.time(), cleaned_count = 0
\* (lines 318-326)
CleanupClock(r) ==
    /\ req[r].pc = "cleanup"
    /\ req' = [req EXCEPT ![r] = [@ EXCEPT !.pc = "listdir", !.current_time = now,
                                           !.cleaned_count = 0]]
    /\ UNCHANGED <<ext_vars, sniff_vars, store, now, ticks, served, overwrote, pc>>

\* os.listdir(output_dir) (line 328)
CleanupListdir(r) ==
    /\ req[r].pc = "listdir"
    /\ req' = [req EXCEPT ![r] = [@ EXCEPT !.pc = "isfile", !.listing = DOMAIN store]]
    /\ UNCHANGED <<ext_vars, sniff_vars, store, now, ticks, served, overwrote, pc>>

\* the next filename of the listing: os.path.isfile(file_path) (lines 328-330);
\* a name that is gone from the directory is skipped
CleanupIsFile(r) ==
    /\ req[r].pc = "isfile"
    /\ \E filename \in req[r].listing :
          req' = [req EXCEPT ![r] =
                    [@ EXCEPT !.listing = @ \ {filename},
                              !.file_path = IF filename \in DOMAIN store THEN filename ELSE <<>>,
                              !.pc = IF filename \in DOMAIN store THEN "getmtime" ELSE "isfile"]]
    /\ UNCHANGED <<ext_vars, sniff_vars, store, now, ticks, served, overwrote, pc>>

\* file_age = current_time - os.path.getmtime(file_path); file_age > 86400
\* (lines 332-333).  os.path.getmtime raises when the file is gone; the
\* function's outer except clause then returns 0 (lines 348-350)
CleanupGetMtime(r) ==
    /\ req[r].pc = "getmtime"
    /\ IF req[r].file_path \notin DOMAIN store
       THEN req' = [req EXCEPT ![r] = [@ EXCEPT !.pc = "write", !.cleaned_files = 0,
                                                !.current_time = 0, !.listing = {},
                                                !.file_path = <<>>, !.cleaned_count = 0]]
       ELSE IF req[r].current_time - store[req[r].file_path].mtime > DaySeconds
       THEN req' = [req EXCEPT ![r] = [@ EXCEPT !.pc = "remove"]]
       ELSE req' = [req EXCEPT ![r] = [@ EXCEPT !.pc = "isfile", !.file_path = <<>>]]
    /\ UNCHANGED <<ext_vars, sniff_vars, store, now, ticks, served, overwrote, pc>>

\* os.remove(file_path); cleaned_count += 1 (lines 334-339).  os.remove
\* raises when the file is gone; the inner except clause goes on with the loop
CleanupRemove(r) ==
    /\ req[r].pc = "remove"
    /\ IF req[r].file_path \in DOMAIN store
       THEN /\ store' = [n \in DOMAIN store \ {req[r].file_path} |-> store[n]]
            /\ req' = [req EXCEPT ![r] = [@ EXCEPT !.pc = "isfile", !.file_path = <<>>,
                                                   !.cleaned_count = @ + 1]]
       ELSE /\ store' = store
            /\ req' = [req EXCEPT ![r] = [@ EXCEPT !.pc = "isfile", !.file_path = <<>>]]
    /\ UNCHANGED <<ext_vars, sniff_vars, now, ticks, served, overwrote, pc>>

\* the listing is exhausted: return cleaned_count (line 346); the
\* function's locals are gone
CleanupReturn(r) ==
    /\ req[r].pc = "isfile"
    /\ req[r].listing = {}
    /\ req' = [req EXCEPT ![r] = [@ EXCEPT !.pc = "write", !.current_time = 0,
                                           !.cleaned_count = 0,
                                           !.cleaned_files = req[r].cleaned_count]]
    /\ UNCHANGED <<ext_vars, sniff_vars, store, now, ticks, served, overwrote, pc>>

\* lines 409-413 (492-496): the name is drawn and open(file_path, 'wb')
\* creates the file, or truncates the file of that name, and holds it open
WriteOpen(r) ==
    /\ req[r].pc = "write"
    /\ \E uuid \in 1..NumUuids :
          LET name == temp_filename(req[r], uuid)
          IN  /\ overwrote' = (overwrote \/ name \in DOMAIN store)
              /\ store' = [n \in DOMAIN store \cup {name} |->
                              IF n = name
                              THEN [mtime |-> now, data |-> <<>>,
                                    open_by |-> IF name \in DOMAIN store
                                                THEN store[name].open_by \cup {r}
                                                ELSE {r}]
                              ELSE store[n]]
              /\ req' = [req EXCEPT ![r] = [@ EXCEPT !.pc = "writing", !.filename = name]]
    /\ UNCHANGED <<ext_vars, sniff_vars, now, ticks, served, pc>>

\* f.write(extracted_data) and the end of the with block (line 414, 497):
\* the bytes reach the file from offset 0 when it is closed.  A file that
\* was removed while open is no longer in the directory and stays out of it.
\* /decode then answers 200 (lines 416-440)
WriteClose(r) ==
    /\ req[r].pc = "writing"
    /\ LET name == req[r].filename
           d == req[r].extracted_data
       IN  IF name \in DOMAIN store /\ r \in store[name].open_by
           THEN store' = [store EXCEPT ![name] =
                             [mtime |-> now,
                              data |-> d \o SubSeq(@.data, Len(d) + 1, Len(@.data)),
                              open_by |-> @.open_by \ {r}]]
           ELSE store' = store
    /\ req' = [req EXCEPT ![r] =
                  IF req[r].kind = "direct" THEN [@ EXCEPT !.pc = "send_file"]
                  ELSE [@ EXCEPT !.pc = "done", !.status = 200]]
    /\ UNCHANGED <<ext_vars, sniff_vars, now, ticks, served, overwrote, pc>>

\* /decode/direct: send_file(file_path, ...) (line 499) reads the file; when
\* it is gone the exception reaches the handler's except clause: 500
SendFile(r) ==
    /\ req[r].pc = "send_file"
    /\ req' = [req EXCEPT ![r] =
                  [@ EXCEPT !.pc = "done",
                            !.status = IF req[r].filename \in DOMAIN store THEN 200 ELSE 500]]
    /\ UNCHANGED <<ext_vars, sniff_vars, store, now, ticks, served, overwrote, pc>>

\* the response is sent and the worker takes the next request
Respond(r) ==
    /\ req[r].pc = "done"
    /\ req' = [req EXCEPT ![r] = IdleRequest]
    /\ UNCHANGED <<ext_vars, sniff_vars, store, now, ticks, served, overwrote, pc>>

\* time passes: a day, or a day and a second
Tick ==
    /\ ticks < MaxTicks
    /\ \E d \in {DaySeconds, DaySeconds + 1} : now' = now + d
    /\ ticks' = ticks + 1
    /\ UNCHANGED <<ext_vars, sniff_vars, store, req, served, overwrote, pc>>

Next ==
    \/ \E r \in Requests : RejectNoUrl(r)
    \/ \E r \in Requests : FailFetch(r)
    \/ \E r \in Requests : Extract(r)
    \/ \E r \in Requests : CleanupClock(r)
    \/ \E r \in Requests : CleanupListdir(r)
    \/ \E r \in Requests : CleanupIsFile(r)
    \/ \E r \in Requests : CleanupGetMtime(r)
    \/ \E r \in Requests : CleanupRemove(r)
    \/ \E r \in Requests : CleanupReturn(r)
    \/ \E r \in Requests : WriteOpen(r)
    \/ \E r \in Requests : WriteClose(r)
    \/ \E r \in Requests : SendFile(r)
    \/ \E r \in Requests : Respond(r)
    \/ Tick

Spec == Init /\ [][Next]_vars

----------------------------------------------------------------------------
(* Properties of the extraction *)

\* the three documented windows of a raster of height h, as [startRow, endRow)
\* pairs: rows trimmed by 20%, rows trimmed by 10%, the full image
DocumentedWindows(h) ==
    << <<h \div 5, h - h \div 5>>, <<h \div 10, h - h \div 10>>, <<0, h>> >>

\* the bit-plane sequence of a window: channelValue & 1 in raster order
WindowBits(img, w) ==
    [n \in 1..((w[2] - w[1]) * img.width * Channels) |->
        img.px[w[1] * img.width * Channels + n] % 2]

\* the declared length of a window that holds at least 32 bits
DeclaredLength(img, w) == data_length(SubSeq(WindowBits(img, w), 1, PrefixBits))

\* a window's scan returns a bit string
Completes(img, w) == scan(img, w[1], w[2], 0, <<>>) # None

\* the index of the first documented window whose scan returns, 0 if none does
FirstComplete(img) ==
    LET W == DocumentedWindows(img.height)
        ok == { n \in 1..3 : Completes(img, W[n]) }
    IN  IF ok = {} THEN 0 ELSE CHOOSE n \in ok : \A m \in ok : n <= m

\* C1: the windows are read in the order 20%-trim, 10%-trim, full image; the
\* function returns the bit string of the first window in that order whose
\* scan completes, and reads no window after it; None only after all three.
C1_FirstWindowWins ==
    LET W == DocumentedWindows(image_array.height)
        f == FirstComplete(image_array)
    IN  /\ Len(tried) <= 3
        /\ \A n \in 1..Len(tried) : tried[n] = W[n]
        /\ f # 0 => Len(tried) <= f
        /\ pc = "returned" =>
              IF f = 0
              THEN binary_data = None /\ Len(tried) = 3
              ELSE /\ Len(tried) = f
                   /\ binary_data =
                        BitsOf(image_array, scan(image_array, W[f][1], W[f][2], 0, <<>>))

\* C1 witness: the 20%-trim window was read and did not complete, and the
\* 10%-trim window, distinct from it, returned the frame
C1_Witness ==
    /\ pc = "returned"
    /\ Len(tried) = 2
    /\ \A a, b \in 1..3 : a # b =>
          DocumentedWindows(image_array.height)[a] # DocumentedWindows(image_array.height)[b]
    /\ binary_data # None

\* no window of the raster holds a frame: each holds fewer than 32 bits or
\* fewer than 32 + 8 * L bits
NoEmbeddedFrame(img) ==
    \A n \in 1..3 :
        LET w == DocumentedWindows(img.height)[n]
            cap == (w[2] - w[1]) * img.width * Channels
        IN  \/ cap < PrefixBits
            \/ cap < PrefixBits + 8 * DeclaredLength(img, w)

\* C2: a raster with no embedded frame yields None after exactly the three
\* windows were tried in the documented order.
C2_NoFrameGivesNone ==
    (pc = "returned" /\ NoEmbeddedFrame(image_array)) =>
        /\ binary_data = None
        /\ tried = DocumentedWindows(image_array.height)

\* C4: a returned bit string is the first 32 + 8 * L bits of the bit-plane
\* sequence of the window it was read from, every bit from a different
\* channel value, all of them inside the window.
C4_FrameIsWindowPrefix ==
    (pc = "returned" /\ binary_data # None) =>
        LET w == tried[Len(tried)]
            wb == WindowBits(image_array, w)
            total == PrefixBits + 8 * DeclaredLength(image_array, w)
            lo == w[1] * image_array.width * Channels
            hi == w[2] * image_array.width * Channels
        IN  /\ Len(wb) >= total
            /\ binary_data = SubSeq(wb, 1, total)
            /\ \A a, b \in 1..Len(reads) : a # b => reads[a] # reads[b]
            /\ \A a \in 1..Len(reads) : lo <= reads[a] /\ reads[a] < hi

\* the raster holds the whole frame of the payload and extract_binary_from_lsb
\* returned from the full-image window (the only window when the height is
\* below 5; otherwise the last one tried)
ReturnedFromFullWindow ==
    /\ Len(EncodeBits(payload)) <= image_array.height * image_array.width * Channels
    /\ Len(tried) >= 1
    /\ tried[Len(tried)] = <<0, image_array.height>>

\* C3 as stated: the packed bytes of the frame read from the full window of a
\* synthetic raster are the payload it was built from.
C3_RoundTripPayloadOnly ==
    (pc = "packed" /\ ReturnedFromFullWindow) => file_data = payload

\* C3 as amended: when the frame is returned from the full window, the
\* packed bytes are the 4-byte big-endian length of the payload followed by
\* exactly the payload.
C3_RoundTripWithPrefix ==
    (pc = "packed" /\ ReturnedFromFullWindow) => file_data = BE32(Len(payload)) \o payload

\* C3 witness: a payload of two different bytes went through extraction and
\* packing on a raster tall enough for three different windows, the two
\* trimmed windows gave no frame and the full window gave it
C3_Witness ==
    /\ pc = "packed"
    /\ Len(payload) >= 2
    /\ payload[1] # payload[2]
    /\ ReturnedFromFullWindow
    /\ Len(tried) = 3
    /\ tried[1] # tried[2]
    /\ tried[2] # tried[3]
    /\ file_data = BE32(Len(payload)) \o payload

----------------------------------------------------------------------------
(* Properties of the sniffer *)

\* the still-image magic a buffer begins with at offset 0, "none" if none
DirectStill(d) ==
    IF startswith(d, PNG_MAGIC) THEN "png"
    ELSE IF startswith(d, JPG_MAGIC) THEN "jpg"
    ELSE IF startswith(d, GIF87a) \/ startswith(d, GIF89a) THEN "gif"
    ELSE IF startswith(d, RIFF) /\ contains(SubSeq(d, 1, Min(12, Len(d))), WEBP) THEN "webp"
    ELSE IF startswith(d, TIFF_II) \/ startswith(d, TIFF_MM) THEN "tiff"
    ELSE IF startswith(d, ICO_MAGIC) THEN "ico"
    ELSE "none"

\* the offset of the occurrence of format f's magic that the embedded search
\* accepts: its first occurrence, provided enough bytes follow it; -1 otherwise
Occurrence(d, f) ==
    LET first(p1, p2) == IF find(d, p1) # -1 THEN find(d, p1) ELSE find(d, p2)
        enough(q, least) == IF q # -1 /\ Len(d) - q > least THEN q ELSE -1
    IN  CASE f = "png" -> enough(find(d, PNG_MAGIC), 8)
          [] f = "jpg" -> enough(find(d, JPG_MAGIC), 4)
          [] f = "gif" -> enough(first(GIF87a, GIF89a), 6)
          [] f = "webp" ->
                LET q == find(d, RIFF)
                IN  IF q # -1 /\ \E i \in (q + 1)..(q + 9) :
                                    i + 3 <= Len(d) /\ SubSeq(d, i, i + 3) = WEBP
                    THEN enough(q, 12) ELSE -1
          [] f = "bmp" -> enough(find(d, BM), 2)
          [] f = "tiff" -> enough(first(TIFF_II, TIFF_MM), 4)
          [] f = "ico" -> enough(find(d, ICO_MAGIC), 4)
          [] f = "svg" ->
                LET q == first(SVG_OPEN, SVG_OPEN_UPPER)
                IN  IF q # -1 /\ ( find_from(d, SVG_CLOSE, q) # -1
                                   \/ find_from(d, SVG_CLOSE_UPPER, q) # -1 )
                    THEN q ELSE -1

EmbeddedOrder == <<"png", "jpg", "gif", "webp", "bmp", "tiff", "ico", "svg">>

\* the first format of EmbeddedOrder with an accepted occurrence, "none" if none
FirstEmbedded(d) ==
    LET ok == { n \in 1..Len(EmbeddedOrder) : Occurrence(d, EmbeddedOrder[n]) # -1 }
    IN  IF ok = {} THEN "none"
        ELSE EmbeddedOrder[CHOOSE n \in ok : \A m \in ok : n <= m]

\* C5 as stated: a buffer that begins with a still-image magic is classified
\* by that offset-0 signature, container from offset 0, whatever magic occurs
\* later; an embedded image signature is used only when the offset-0
\* signatures and ftyp have failed.
C5_DirectStartFirst ==
    pc = "detected" =>
        /\ DirectStill(file_data) # "none" =>
              /\ detected.file_type = "png"
              /\ detected.format = DirectStill(file_data)
              /\ detected.at = 0
        /\ (detected.file_type = "png" /\ detected.at > 0) =>
              /\ DirectStill(file_data) = "none"
              /\ ~(find(file_data, FTYP) # -1 /\ find(file_data, FTYP) < 20)

\* C5 as amended: the embedded image signatures are tested first, in the
\* order PNG, JPEG, GIF, WEBP, BMP, TIFF, ICO, SVG, then ftyp, then the
\* offset-0 signatures.  A buffer that begins with a still-image magic is
\* classified by the first format in that order with an accepted occurrence
\* anywhere in the buffer, container from that occurrence; by ftyp or its
\* offset-0 signature only when there is none.
C5_EmbeddedFirst ==
    (pc = "detected" /\ DirectStill(file_data) # "none") =>
        IF FirstEmbedded(file_data) # "none"
        THEN /\ detected.file_type = "png"
             /\ detected.format = FirstEmbedded(file_data)
             /\ detected.at = Occurrence(file_data, FirstEmbedded(file_data))
        ELSE IF find(file_data, FTYP) # -1 /\ find(file_data, FTYP) < 20
        THEN detected.file_type = "mp4"
        ELSE /\ detected.file_type = "png"
             /\ detected.format = DirectStill(file_data)
             /\ detected.at = 0

\* C5 witness: a buffer beginning with the JPEG magic was classified by a PNG
\* signature found later in it
C5_Witness ==
    /\ pc = "detected"
    /\ DirectStill(file_data) = "jpg"
    /\ detected.format = "png"
    /\ detected.at > 0

\* C6 as stated: every buffer beginning with 89 50 4E 47, of any length, is
\* returned whole as png, without the normalizer.
C6_PngAnyLength ==
    (pc = "detected" /\ startswith(file_data, PNG_MAGIC)) =>
        /\ detected.file_type = "png"
        /\ detected.data = file_data
        /\ ~detected.codec

\* C6 as amended: every buffer of more than 8 bytes beginning with
\* 89 50 4E 47 is returned whole as png, without the normalizer.
C6_PngLongerThan8 ==
    (pc = "detected" /\ startswith(file_data, PNG_MAGIC) /\ Len(file_data) > 8) =>
        /\ detected.file_type = "png"
        /\ detected.data = file_data
        /\ detected.at = 0
        /\ ~detected.codec

\* C6 witness: a PNG of more than 8 bytes that holds a JPEG magic further on
C6_Witness ==
    /\ pc = "detected"
    /\ startswith(file_data, PNG_MAGIC)
    /\ Len(file_data) > 8
    /\ contains(file_data, JPG_MAGIC)
    /\ detected.data = file_data

\* C7: when the bitmap magic is what matched and a size field follows it,
\* the 4-byte little-endian size at offset 2 of the match decides: with
\* 1000 <= size <= min(remaining length, 50 MiB) the container is the first
\* `size` bytes from the match, otherwise the result is bin.
C7_BitmapSizeValidated ==
    (pc = "detected" /\ Occurrence(file_data, "bmp") # -1
       /\ Len(file_data) - Occurrence(file_data, "bmp") >= 6
       /\ \A n \in 1..4 : Occurrence(file_data, EmbeddedOrder[n]) = -1) =>
        LET q == Occurrence(file_data, "bmp")
            rest == Len(file_data) - q
            b == SubSeq(file_data, q + 3, q + 6)
            size == b[1] + 256 * b[2] + 65536 * b[3] + 16777216 * b[4]
            valid == /\ b[4] <= 3
                     /\ 1000 <= size
                     /\ size <= Min(rest, 52428800)
        IN  IF valid
            THEN /\ detected.file_type = "png"
                 /\ ~codec_decodes => detected.data = SubSeq(file_data, q + 1, q + size)
            ELSE detected.file_type = "bin"

\* no still-image signature matches a buffer
NoStillImage(d) == FirstEmbedded(d) = "none" /\ DirectStill(d) = "none" /\ ~startswith(d, BM)

\* C8: with no still-image signature matching and ftyp first at p < 20, the
\* result is mp4 and its container runs from 4 bytes before the marker (from
\* the start of the buffer when fewer precede it) to the end of the buffer,
\* marker included; with ftyp first at p >= 20 the result is not mp4.
C8_FtypContainer ==
    pc = "detected" =>
        LET p == find(file_data, FTYP)
        IN  /\ (NoStillImage(file_data) /\ p # -1 /\ p < 20) =>
                  /\ detected.file_type = "mp4"
                  /\ detected.at = Max(p - 4, 0)
                  /\ detected.data = SubSeq(file_data, Max(p - 4, 0) + 1, Len(file_data))
            /\ (p = -1 \/ p >= 20) => detected.file_type # "mp4"

\* C9: detect_file_type ends in no error for any buffer and either codec
\* outcome; when the codec fails, what convert_to_png returns is exactly the
\* bytes handed to it; the codec is reached only for jpg, gif, webp, bmp,
\* tiff and ico, never for png, svg, mp4, avi, mkv, mp3, wav or bin.
C9_NormalizationDegrades ==
    pc = "detected" =>
        /\ detected.data # Raised
        /\ detected.file_type \in {"png", "mp4", "avi", "mkv", "mp3", "wav", "bin"}
        /\ detected.codec <=> detected.format \in {"jpg", "gif", "webp", "bmp", "tiff", "ico"}
        /\ detected.file_type # "png" => ~detected.codec
        /\ (detected.codec /\ ~codec_decodes) =>
              detected.data = SubSeq(file_data, detected.at + 1, Len(file_data))
        /\ ~detected.codec =>
              \E n \in detected.at..Len(file_data) :
                 detected.data = SubSeq(file_data, detected.at + 1, n)

\* C9 witness: the codec failed on an image found at an offset inside the
\* buffer and the bytes from that offset came back unchanged
C9_Witness ==
    /\ pc = "detected"
    /\ detected.codec
    /\ ~codec_decodes
    /\ detected.at > 0
    /\ detected.data = SubSeq(file_data, detected.at + 1, Len(file_data))

----------------------------------------------------------------------------
(* Properties of the output store *)

\* C10: every file a request writes goes to a name that did not exist in the
\* output store: no write replaces a file written earlier or by another
\* request.
C10_NoOverwrite == ~overwrote

\* C11 (returned count): whenever cleanup_old_files returns, the count it
\* returns equals the number of files that call removed from the output
\* store.
C11_ReturnedCountIsRemoved ==
    [][\A r \in Requests :
          (req[r].pc \in {"isfile", "getmtime"} /\ req'[r].pc = "write")
             => req'[r].cleaned_files = req[r].cleaned_count]_vars

\* C11 (24 hours): a file leaves the output store only when more than
\* 86400 seconds have passed since it was written, whichever request's
\* cleanup removes it.
C11_NoEarlyRemoval ==
    [][\A n \in DOMAIN store \ DOMAIN store' : now - store[n].mtime > DaySeconds]_vars

\* C12: a request that recovered no frame (no url field: 400; fetching or
\* decoding raised: 500; extract_binary_from_lsb returned None: 404) went
\* from receipt to its response without running cleanup_old_files and
\* without changing the output store; 400 and 404 are answered only to such
\* requests; the store changes only in a cleanup or write step of a request
\* that recovered a frame.
C12_NoFrameNoStoreEffect ==
    [][/\ \A r \in Requests :
             (req[r].pc # "done" /\ req'[r].pc = "done")
                => /\ req'[r].file_type = "none"
                      => /\ req[r].pc = "idle"
                         /\ store' = store
                         /\ req'[r].filename = <<>>
                         /\ req'[r].status \in {400, 404, 500}
                   /\ req'[r].status \in {400, 404} => req'[r].file_type = "none"
       /\ \A r \in Requests :
             req'[r].pc \in {"cleanup", "listdir", "isfile", "getmtime", "remove",
                             "write", "writing", "send_file"}
                => req'[r].file_type # "none"
       /\ store' # store
             => \E r \in Requests : /\ req[r].pc \in {"remove", "write", "writing"}
                                    /\ req[r].file_type # "none"
                                    /\ req'[r] # req[r]]_vars

\* C12 witness: a request was answered 404 while the output store held a
\* file old enough for cleanup_old_files to remove, and the file is still
\* there
C12_Witness ==
    \E r \in Requests :
       /\ req[r].pc = "done"
       /\ req[r].status = 404
       /\ expired(store, now) # {}

====
